---------------------------- MODULE Spec2Model ----------------------------
(***************************************************************************)
(* Piece lifecycle and transaction reconciliation of pdp-server.           *)
(*                                                                         *)
(* PieceService (pkg/piece/service.go) keeps an in-memory map of PieceInfo *)
(* records guarded by one mutex; every exported operation holds the mutex  *)
(* from its first to its last statement, so the body of an operation is    *)
(* one step.  A client first issues a call (it is then waiting for the     *)
(* mutex) and the call later executes; two clients give the interleavings  *)
(* of concurrent calls.                                                    *)
(*                                                                         *)
(* TransactionWatcher (pkg/watcher) owns the message_waits_eth table of    *)
(* the isolated database (localTx) and reads Piri's database (piriTx).     *)
(* PieceService.MonitorTransactionStatus reads the isolated database.      *)
(* watcher is the state of the TransactionWatcher object and of its        *)
(* goroutine: where the goroutine is, the stop channel, the call of Stop   *)
(* and the batch of the tick in progress.                                  *)
(*                                                                         *)
(* Byte strings are represented as [data, len]: the bytes named by data    *)
(* (DataLen(data) of them, the last one non-zero) followed by zero bytes   *)
(* up to length len.  The padding function is also given on sequences of   *)
(* bytes, byte by byte; pad holds an input of it and its results.          *)
(*                                                                         *)
(* uploadSvc is the UploadService (pkg/upload/service.go): its map of      *)
(* uploads, its metadata file and the calls of UploadFile under way.       *)
(***************************************************************************)
EXTENDS Integers, Sequences, FiniteSets, TLC

VARIABLES pieces, blobs, parked, localTx, piriTx, clients, addRootCalls,
          watcher, pad, uploadSvc

vars == <<pieces, blobs, parked, localTx, piriTx, clients, addRootCalls, watcher,
          pad, uploadSvc>>

---------------------------------------------------------------------------
(* Bounds and input sets *)

Clients == {"c1", "c2"}

PieceIDs == {"p1", "p2"}

\* proof set ids a caller may pass: 1..MaxProofSetID
MaxProofSetID == 1

ProofSetIDs == 1..MaxProofSetID

\* cap on ProofSetAddRoot calls counted per piece id
MaxAddRootCalls == 2

\* paths a caller may pass to PreparePiece; "nofile" cannot be opened
FilePaths == {"f1", "f2", "nofile"}

ExistingFiles == {"f1", "f2"}

\* first 8 bytes of the SHA-256 of the file, in hex
FileID(f) == IF f = "f1" THEN "p1" ELSE "p2"

FileSize(f) == IF f = "f1" THEN 100 ELSE 200

\* number of bytes of the non-zero-terminated prefix named by d
DataLen(d) == IF d = "a" THEN 100 ELSE IF d = "b" THEN 11 ELSE 0

Bytes(d, n) == [data |-> d, len |-> n]

EmptyBytes == Bytes("", 0)

\* byte strings a caller may upload
Contents == {Bytes("a", 100), Bytes("a", 128), Bytes("b", 11), Bytes("b", 200), EmptyBytes}

\* transaction hashes the ledger may return or index
TxHashes == {"h1", "h2"}

\* the hashes whose transactions Piri gets to index while the model runs
IndexedHashes == {"h1"}

---------------------------------------------------------------------------
(* Values *)

\* the empty string as a content identifier / commitment
NoCID == [data |-> "-", len |-> 0]

ZeroTime == 0

\* time.Now(): some instant after the zero time
TimeNow == 1

StatusPrepared == "prepared"

StatusUploaded == "uploaded"

StatusPending == "pending_confirmation"

StatusAdded == "added_to_proofset"

StatusTxFailed == "transaction_failed"

StatusError == "error"

TxSuccessValues == {"nil", "true", "false"}


\* commp.Calc.Digest is undefined for fewer than MinPiecePayload bytes
MinPiecePayload == 65

\* nonffi.GenerateUnsealedCID rejects pieces smaller than MinUnsealedPieceSize
MinUnsealedPieceSize == 128

---------------------------------------------------------------------------
(* Commitment calculation *)

RECURSIVE NextPow2From(_, _)
\* for nextPowerOfTwo < size { nextPowerOfTwo <<= 1 }
NextPow2From(p, size) == IF p < size THEN NextPow2From(2 * p, size) ELSE p

IsPowerOfTwo(n) == n > 0 /\ NextPow2From(1, n) = n

padToPowerOfTwo(data) ==
    LET size == data.len
        nextPowerOfTwo == NextPow2From(1, size)
    IN  IF size = 0 THEN data
        ELSE IF nextPowerOfTwo = size THEN data
        ELSE Bytes(data.data, nextPowerOfTwo)

\* variant: the padded buffer is allocated but the data is not copied into it
padToPowerOfTwoSeqNoCopy(data) ==
    LET size == Len(data)
        nextPowerOfTwo == NextPow2From(1, size)
    IN  IF size = 0 THEN data
        ELSE IF nextPowerOfTwo = size THEN data
        ELSE [i \in 1..nextPowerOfTwo |-> 0]

\* variant: the loop runs while nextPowerOfTwo <= size
padToPowerOfTwoSeqBeyond(data) ==
    LET size == Len(data)
        nextPowerOfTwo == NextPow2From(1, size + 1)
    IN  IF size = 0 THEN data
        ELSE IF nextPowerOfTwo = size THEN data
        ELSE [i \in 1..nextPowerOfTwo |-> IF i <= size THEN data[i] ELSE 0]

\* padToPowerOfTwo on a sequence of bytes: make([]byte, nextPowerOfTwo)
\* gives zero bytes, copy(padded, data) overwrites the first size of them
padToPowerOfTwoSeq(data) ==
    LET size == Len(data)
        nextPowerOfTwo == NextPow2From(1, size)
    IN  IF size = 0 THEN data
        ELSE IF nextPowerOfTwo = size THEN data
        ELSE [i \in 1..nextPowerOfTwo |-> IF i <= size THEN data[i] ELSE 0]

\* cp.Digest() fails when fewer than MinPiecePayload bytes were written
CommPDefined(padded) == padded.len >= MinPiecePayload

\* the digest of a byte string: equal byte strings, and only those, give
\* equal digests.  Trailing zero bytes are part of the string, so the
\* digest depends on the prefix and on the total length.
CommPDigest(padded) == [data |-> padded.data, len |-> padded.len]

\* commcid.DataCommitmentV1ToCID followed by String(): a one-to-one
\* encoding of the digest
PieceCIDOf(digest) == [data |-> "cid:" \o digest.data, len |-> digest.len]

\* cid.Decode: the stored string parses unless it is empty
CIDDecodes(c) == c # NoCID

\* nonffi.GenerateUnsealedCID checks of the single PieceInfo
UnsealedCIDDefined(size) == size >= MinUnsealedPieceSize /\ IsPowerOfTwo(size)

---------------------------------------------------------------------------
(* Records *)

NewPreparedPiece(id, f) ==
    [ID |-> id, FilePath |-> f, Size |-> FileSize(f), CommP |-> NoCID,
     PieceCID |-> NoCID, ProofSetID |-> 0, Status |-> StatusPrepared,
     ErrorMessage |-> "", TransactionHash |-> "",
     TransactionTimestamp |-> ZeroTime]

\* variant: the piece id enters the commitment
NewUploadedPieceSalted(id, padded) ==
    [ID |-> id, FilePath |-> "", Size |-> padded.len,
     CommP |-> CommPDigest(Bytes(padded.data \o id, padded.len)),
     PieceCID |-> PieceCIDOf(CommPDigest(Bytes(padded.data \o id, padded.len))),
     ProofSetID |-> 0,
     Status |-> StatusUploaded, ErrorMessage |-> "", TransactionHash |-> "",
     TransactionTimestamp |-> ZeroTime]

\* piece := &PieceInfo{...} in UploadPiece
NewUploadedPiece(id, padded) ==
    [ID |-> id, FilePath |-> "", Size |-> padded.len,
     CommP |-> CommPDigest(padded),
     PieceCID |-> PieceCIDOf(CommPDigest(padded)), ProofSetID |-> 0,
     Status |-> StatusUploaded, ErrorMessage |-> "", TransactionHash |-> "",
     TransactionTimestamp |-> ZeroTime]

\* a row of message_waits_eth, keyed by signed_tx_hash
TxRecord(status, success) == [TxStatus |-> status, TxSuccess |-> success]

Idle ==
    [st |-> "idle", op |-> "none", id |-> "", file |-> "",
     content |-> EmptyBytes, ps |-> 0, seen |-> "absent", rows |-> FALSE,
     err |-> "none", tx |-> ""]

StatusOf(id) == IF id \in DOMAIN pieces THEN pieces[id].Status ELSE "absent"

\* the tables createPiriDatabaseEntries writes, in the order of its steps
ParkedTables == <<"parked_pieces", "parked_piece_refs", "pdp_piecerefs">>

\* the row that step k creates for a piece CID
RowOf(k, pieceCID) == [table |-> ParkedTables[k], cid |-> pieceCID]

\* the rows of steps 1..n
RowsUpTo(n, pieceCID) == {RowOf(k, pieceCID) : k \in 1..n}

\* parked_pieces already holds a row for the piece CID of piece id
HasParkedRows(id) == id \in DOMAIN pieces /\ RowOf(1, pieces[id].PieceCID) \in parked

\* a call as issued; seen and rows note the status of the piece and the
\* presence of its parked rows at that moment
Request(op, id, f, content, ps) ==
    [st |-> "called", op |-> op, id |-> id, file |-> f, content |-> content,
     ps |-> ps, seen |-> StatusOf(id), rows |-> HasParkedRows(id),
     err |-> "none", tx |-> ""]

\* client c has returned from call r with error err (and transaction tx)
Done(c, r, err, tx) ==
    [clients EXCEPT ![c] = [r EXCEPT !.st = "done", !.err = err, !.tx = tx]]

\* m with key k bound to v (Go: m[k] = v)
MapPut(m, k, v) == [x \in DOMAIN m \cup {k} |-> IF x = k THEN v ELSE m[x]]

\* the watcher as constructed: its goroutine not started (pc "new"), the
\* stop channel open, Stop not called.  pc is "select" while the goroutine
\* waits in its select, "tick" while it is inside
\* processPendingTransactions and holds tw.mutex, "exited" once it returned.
\* batch, todo, checked and failed describe the tick in progress: the rows
\* it enumerated, those still to check, those checked, and those whose check
\* returned an error.  lastTick is what the last finished tick returned;
\* afterError says that the tick in progress or last finished was started
\* after a tick that returned an error; stopAt is pc when Stop was called.
NewTransactionWatcher ==
    [pc |-> "new", stopChan |-> "open", stop |-> "none", stopAt |-> "none",
     batch |-> {}, todo |-> {}, checked |-> {}, failed |-> {},
     lastTick |-> "none", afterError |-> FALSE]

\* UploadFile not called by a client
NoUpload == [pc |-> "idle", cid |-> "", name |-> "", snap |-> {}]

\* the UploadService as constructed over an empty data directory: no
\* upload tracked, no metadata file (file is the list of entries in
\* uploads.json, as a set), no call of UploadFile under way
NewUploadService ==
    [uploads |-> [x \in {} |-> ""], file |-> {}, calls |-> [c \in Clients |-> NoUpload]]

\* no input of the padding function is under consideration
NotPadding == [pc |-> "none", x |-> <<>>, once |-> <<>>, twice |-> <<>>]

---------------------------------------------------------------------------
Init ==
    /\ pieces = [x \in {} |-> 0]
    /\ blobs = {}
    /\ parked = {}
    /\ localTx = [x \in {} |-> 0]
    /\ piriTx = [x \in {} |-> 0]
    /\ clients = [c \in Clients |-> Idle]
    /\ addRootCalls = [id \in PieceIDs |-> 0]
    /\ watcher = NewTransactionWatcher
    /\ pad = NotPadding
    /\ uploadSvc = NewUploadService

---------------------------------------------------------------------------
(* Calls a client may make *)

PrepareRequests == {Request("prepare", "", f, EmptyBytes, 0) : f \in FilePaths}

UploadRequests == {Request("upload", id, "", b, 0) : id \in PieceIDs, b \in Contents}

AddRequests == {Request("add", id, "", EmptyBytes, ps) : id \in PieceIDs, ps \in ProofSetIDs}

MonitorRequests == {Request("monitor", id, "", EmptyBytes, 0) : id \in PieceIDs}

---------------------------------------------------------------------------
(* PieceService.PreparePiece, the body run under p.mutex for call r *)

PreparePieceBody(c, r) ==
    LET pieceID == FileID(r.file)
    IN  /\ IF r.file \notin ExistingFiles
           THEN /\ clients' = Done(c, r, "open", "")
                /\ UNCHANGED pieces
           ELSE /\ pieces' = MapPut(pieces, pieceID, NewPreparedPiece(pieceID, r.file))
                /\ clients' = Done(c, [r EXCEPT !.id = pieceID], "none", "")
        /\ UNCHANGED <<blobs, parked, localTx, piriTx, addRootCalls, watcher, pad, uploadSvc>>

---------------------------------------------------------------------------
(* PieceService.UploadPiece *)

\* variant: only a piece that is still Uploaded refuses a second upload
UploadRefusedWhileUploaded(id) ==
    id \in DOMAIN pieces /\ pieces[id].Status = StatusUploaded

\* variant: the existence test is inverted (upload requires a record)
UploadRefusedUnlessKnown(id) == id \notin DOMAIN pieces

\* variant: a piece whose submission is over may be uploaded again
UploadRefusedBeforeSubmission(id) ==
    id \in DOMAIN pieces /\ pieces[id].Status \in {StatusPrepared, StatusUploaded}

\* variant: a piece in Error may be uploaded again
UploadRefusedUnlessError(id) ==
    id \in DOMAIN pieces /\ pieces[id].Status # StatusError

\* if _, exists := p.pieces[pieceID]; exists { return error }
UploadRefused(id) == id \in DOMAIN pieces

\* variant: the error of blobStore.Put is ignored and the record is stored
UploadPieceBodyIgnoringPut(c, r, putFails) ==
    LET paddedContent == padToPowerOfTwo(r.content)
        piece == NewUploadedPiece(r.id, paddedContent)
    IN  /\ IF UploadRefused(r.id)
             THEN /\ clients' = Done(c, r, "exists", "")
                  /\ UNCHANGED <<pieces, blobs>>
             ELSE IF ~CommPDefined(paddedContent)
             THEN /\ clients' = Done(c, r, "commp", "")
                  /\ UNCHANGED <<pieces, blobs>>
             ELSE /\ blobs' = IF putFails THEN blobs ELSE blobs \cup {piece.PieceCID}
                  /\ pieces' = MapPut(pieces, r.id, piece)
                  /\ clients' = Done(c, r, "none", "")
        /\ UNCHANGED <<parked, localTx, piriTx, addRootCalls, watcher, pad, uploadSvc>>

\* putFails: blobStore.Put returns an error
UploadPieceBody(c, r, putFails) ==
    LET paddedContent == padToPowerOfTwo(r.content)
        piece == NewUploadedPiece(r.id, paddedContent)
    IN  /\ IF UploadRefused(r.id)
             THEN /\ clients' = Done(c, r, "exists", "")
                  /\ UNCHANGED <<pieces, blobs>>
             ELSE IF ~CommPDefined(paddedContent)
             THEN /\ clients' = Done(c, r, "commp", "")
                  /\ UNCHANGED <<pieces, blobs>>
             ELSE IF putFails
             THEN /\ clients' = Done(c, r, "blob", "")
                  /\ UNCHANGED <<pieces, blobs>>
             ELSE /\ blobs' = blobs \cup {piece.PieceCID}
                  /\ pieces' = MapPut(pieces, r.id, piece)
                  /\ clients' = Done(c, r, "none", "")
        /\ UNCHANGED <<parked, localTx, piriTx, addRootCalls, watcher, pad, uploadSvc>>

---------------------------------------------------------------------------
(* PieceService.AddPieceToProofSet *)

\* values ProofSetAddRoot may return: an error (str is its text), a
\* string (str), or a value that is not a string
AddRootReplies ==
    {[fails |-> TRUE, isString |-> FALSE, str |-> "rejected"],
     [fails |-> FALSE, isString |-> FALSE, str |-> ""]}
    \cup {[fails |-> FALSE, isString |-> TRUE, str |-> h] : h \in TxHashes \cup {""}}

\* variant: a piece that is already pending may be submitted again
AddAllowedWhilePending(piece) == piece.Status \in {StatusUploaded, StatusPending}

\* variant: only a piece that was never uploaded is refused
AddAllowedUnlessPrepared(piece) == piece.Status # StatusPrepared

\* if piece.Status != "uploaded" { return error }
AddAllowed(piece) == piece.Status = StatusUploaded

\* variant: the failure is reported to the caller but not recorded
SubmitRejectedUnrecorded(piece, reply) == piece

\* the err != nil branch after ProofSetAddRoot
SubmitRejected(piece, reply) ==
    [piece EXCEPT !.Status = StatusError,
                  !.ErrorMessage = "failed to add root to proof set: " \o reply.str]

\* variant: the transaction hash of the reply is not stored
SubmitAcceptedNoHash(piece, proofSetID, reply) ==
    [piece EXCEPT !.ProofSetID = proofSetID,
                  !.Status = StatusPending,
                  !.TransactionTimestamp = TimeNow]

\* the statements after a successful ProofSetAddRoot
SubmitAccepted(piece, proofSetID, reply) ==
    [piece EXCEPT !.TransactionHash = IF reply.isString THEN reply.str ELSE @,
                  !.ProofSetID = proofSetID,
                  !.Status = StatusPending,
                  !.TransactionTimestamp = TimeNow]

\* the gorm transaction of createPiriDatabaseEntries: the unique index on
\* parked_pieces.piece_cid rejects a second row for the same piece CID
ParkedInsertFails(pieceCID) == RowOf(1, pieceCID) \in parked

\* variant: the rows are created without a transaction, so those created
\* before the failing step stay
createPiriDatabaseEntriesNoRollback(rows, pieceCID, failAt) ==
    IF ParkedInsertFails(pieceCID) THEN rows
    ELSE IF failAt = 0 THEN rows \cup RowsUpTo(3, pieceCID)
    ELSE rows \cup RowsUpTo(failAt - 1, pieceCID)

\* the rows after p.db.Transaction(...): the three rows when every Create
\* succeeds, the rows as before when the Create of step failAt (1..3; 0 for
\* none) or the unique index fails and the transaction is rolled back
createPiriDatabaseEntries(rows, pieceCID, failAt) ==
    IF ParkedInsertFails(pieceCID) THEN rows
    ELSE IF failAt = 0 THEN rows \cup RowsUpTo(3, pieceCID)
    ELSE rows

\* dbFails: a Create of the transaction fails for another reason;
\* reply: what piriService.ProofSetAddRoot returns if it is called
AddPieceToProofSetBody(c, r, dbFails, reply) ==
    LET piece == pieces[r.id]
    IN  /\ IF r.id \notin DOMAIN pieces
             THEN /\ clients' = Done(c, r, "not_found", "")
                  /\ UNCHANGED <<pieces, parked, addRootCalls>>
             ELSE IF ~AddAllowed(piece)
             THEN /\ clients' = Done(c, r, "state", "")
                  /\ UNCHANGED <<pieces, parked, addRootCalls>>
             ELSE IF ~CIDDecodes(piece.PieceCID)
             THEN /\ clients' = Done(c, r, "cid", "")
                  /\ UNCHANGED <<pieces, parked, addRootCalls>>
             ELSE IF ~UnsealedCIDDefined(piece.Size)
             THEN /\ clients' = Done(c, r, "unsealed", "")
                  /\ UNCHANGED <<pieces, parked, addRootCalls>>
             ELSE IF dbFails
             THEN /\ clients' = Done(c, r, "db", "")
                  /\ \E failAt \in 1..3 :
                        parked' = createPiriDatabaseEntries(parked, piece.PieceCID, failAt)
                  /\ UNCHANGED <<pieces, addRootCalls>>
             ELSE IF ParkedInsertFails(piece.PieceCID)
             THEN /\ clients' = Done(c, r, "db_unique", "")
                  /\ UNCHANGED <<pieces, parked, addRootCalls>>
             ELSE /\ addRootCalls[r.id] < MaxAddRootCalls
                  /\ parked' = createPiriDatabaseEntries(parked, piece.PieceCID, 0)
                  /\ addRootCalls' = [addRootCalls EXCEPT ![r.id] = @ + 1]
                  /\ IF reply.fails
                     THEN /\ pieces' = [pieces EXCEPT ![r.id] = SubmitRejected(piece, reply)]
                          /\ clients' = Done(c, r, "ledger", "")
                     ELSE /\ pieces' = [pieces EXCEPT ![r.id] =
                                           SubmitAccepted(piece, r.ps, reply)]
                          /\ clients' = Done(c, r, "none",
                                             IF reply.isString THEN reply.str ELSE "nonstring")
        /\ UNCHANGED <<blobs, localTx, piriTx, watcher, pad, uploadSvc>>

---------------------------------------------------------------------------
(* PieceService.MonitorTransactionStatus *)

\* if piece.Status != "pending_confirmation" { return error }
MonitorAllowed(piece) == piece.Status = StatusPending

\* variant: the success test is inverted
ApplyTxStatusInverted(piece, messageWait) ==
    IF messageWait.TxStatus = "confirmed"
    THEN IF messageWait.TxSuccess # "true"
         THEN [piece EXCEPT !.Status = StatusAdded]
         ELSE [piece EXCEPT !.Status = StatusTxFailed,
                            !.ErrorMessage = "Transaction failed on blockchain"]
    ELSE piece

\* variant: a confirmed transaction without a success flag counts as success
ApplyTxStatusNilSucceeds(piece, messageWait) ==
    IF messageWait.TxStatus = "confirmed"
    THEN IF messageWait.TxSuccess # "false"
         THEN [piece EXCEPT !.Status = StatusAdded]
         ELSE [piece EXCEPT !.Status = StatusTxFailed,
                            !.ErrorMessage = "Transaction failed on blockchain"]
    ELSE piece

\* variant: every transaction that is not a confirmed success is a failure
ApplyTxStatusEager(piece, messageWait) ==
    IF messageWait.TxStatus = "confirmed" /\ messageWait.TxSuccess = "true"
    THEN [piece EXCEPT !.Status = StatusAdded]
    ELSE [piece EXCEPT !.Status = StatusTxFailed,
                       !.ErrorMessage = "Transaction failed on blockchain"]

\* variant: a failed transaction is recorded without an error message
ApplyTxStatusNoMessage(piece, messageWait) ==
    IF messageWait.TxStatus = "confirmed"
    THEN IF messageWait.TxSuccess = "true"
         THEN [piece EXCEPT !.Status = StatusAdded]
         ELSE [piece EXCEPT !.Status = StatusTxFailed]
    ELSE piece

\* the switch on messageWait.TxStatus
ApplyTxStatus(piece, messageWait) ==
    IF messageWait.TxStatus = "confirmed"
    THEN IF messageWait.TxSuccess = "true"
         THEN [piece EXCEPT !.Status = StatusAdded]
         ELSE [piece EXCEPT !.Status = StatusTxFailed,
                            !.ErrorMessage = "Transaction failed on blockchain"]
    ELSE piece

\* variant: a stale error message is cleared before the status is checked
MonitorClearsError(c, r, queryFails) ==
    LET piece == [pieces[r.id] EXCEPT !.ErrorMessage = ""]
    IN  /\ IF r.id \notin DOMAIN pieces
           THEN /\ clients' = Done(c, r, "not_found", "")
                /\ UNCHANGED pieces
           ELSE IF ~MonitorAllowed(piece)
           THEN /\ clients' = Done(c, r, "state", "")
                /\ pieces' = [pieces EXCEPT ![r.id] = piece]
           ELSE IF piece.TransactionHash = ""
           THEN /\ clients' = Done(c, r, "no_tx_hash", "")
                /\ pieces' = [pieces EXCEPT ![r.id] = piece]
           ELSE IF queryFails
           THEN /\ clients' = Done(c, r, "query", "")
                /\ pieces' = [pieces EXCEPT ![r.id] = piece]
           ELSE IF piece.TransactionHash \notin DOMAIN localTx
           THEN /\ clients' = Done(c, r, "none", "")
                /\ pieces' = [pieces EXCEPT ![r.id] = piece]
           ELSE /\ pieces' = [pieces EXCEPT ![r.id] =
                                 ApplyTxStatus(piece, localTx[piece.TransactionHash])]
                /\ clients' = Done(c, r, "none", "")
        /\ UNCHANGED <<blobs, parked, localTx, piriTx, addRootCalls, watcher, pad, uploadSvc>>

\* queryFails: the query fails with an error other than ErrRecordNotFound
MonitorTransactionStatusBody(c, r, queryFails) ==
    LET piece == pieces[r.id]
    IN  /\ IF r.id \notin DOMAIN pieces
             THEN /\ clients' = Done(c, r, "not_found", "")
                  /\ UNCHANGED pieces
             ELSE IF ~MonitorAllowed(piece)
             THEN /\ clients' = Done(c, r, "state", "")
                  /\ UNCHANGED pieces
             ELSE IF piece.TransactionHash = ""
             THEN /\ clients' = Done(c, r, "no_tx_hash", "")
                  /\ UNCHANGED pieces
             ELSE IF queryFails
             THEN /\ clients' = Done(c, r, "query", "")
                  /\ UNCHANGED pieces
             ELSE IF piece.TransactionHash \notin DOMAIN localTx
             THEN /\ clients' = Done(c, r, "none", "")
                  /\ UNCHANGED pieces
             ELSE /\ pieces' = [pieces EXCEPT ![r.id] =
                                   ApplyTxStatus(piece, localTx[piece.TransactionHash])]
                  /\ clients' = Done(c, r, "none", "")
        /\ UNCHANGED <<blobs, parked, localTx, piriTx, addRootCalls, watcher, pad, uploadSvc>>

---------------------------------------------------------------------------
(* Calls made one after the other by a single client: the call is issued
   and runs under the mutex in one step *)

Caller == "c1"

PreparePiece == \E r \in PrepareRequests : PreparePieceBody(Caller, r)

UploadPiece ==
    \E r \in UploadRequests, putFails \in BOOLEAN : UploadPieceBody(Caller, r, putFails)

AddPieceToProofSet ==
    \E r \in AddRequests, dbFails \in BOOLEAN, reply \in AddRootReplies :
        AddPieceToProofSetBody(Caller, r, dbFails, reply)

MonitorTransactionStatus ==
    \E r \in MonitorRequests, queryFails \in BOOLEAN :
        MonitorTransactionStatusBody(Caller, r, queryFails)

---------------------------------------------------------------------------
(* TransactionWatcher *)

\* tw.mutex is held from the first to the last statement of
\* processPendingTransactions
TwMutexHeld == watcher.pc = "tick"

\* MonitorTransaction: under tw.mutex, insert a pending row unless the hash
\* is known
MonitorTransaction(h) ==
    /\ ~TwMutexHeld
    /\ h \notin DOMAIN localTx
    /\ localTx' = MapPut(localTx, h, TxRecord("pending", "nil"))
    /\ UNCHANGED <<pieces, blobs, parked, piriTx, clients, addRootCalls, watcher, pad, uploadSvc>>

\* checkTransactionStatus for one pending row
CheckedTx(h) ==
    IF h \notin DOMAIN piriTx THEN localTx[h]
    ELSE IF piriTx[h].TxStatus # localTx[h].TxStatus
    THEN TxRecord(piriTx[h].TxStatus, piriTx[h].TxSuccess)
    ELSE localTx[h]

\* one timer tick: processPendingTransactions over the rows whose status
\* is pending.  updatePieceStatusForConfirmedTx only logs.
WatcherTick ==
    /\ localTx' = [h \in DOMAIN localTx |->
                      IF localTx[h].TxStatus = "pending" THEN CheckedTx(h)
                      ELSE localTx[h]]
    /\ UNCHANGED <<pieces, blobs, parked, piriTx, clients, addRootCalls, watcher, pad, uploadSvc>>

---------------------------------------------------------------------------
(* Piri's database, written by Piri only *)

PiriIndexes(h) ==
    /\ h \notin DOMAIN piriTx
    /\ piriTx' = MapPut(piriTx, h, TxRecord("pending", "nil"))
    /\ UNCHANGED <<pieces, blobs, parked, localTx, clients, addRootCalls, watcher, pad, uploadSvc>>

PiriResolves(h) ==
    /\ h \in DOMAIN piriTx
    /\ piriTx[h].TxStatus = "pending"
    /\ \E rec \in {TxRecord("confirmed", s) : s \in TxSuccessValues}
                   \cup {TxRecord("failed", "nil")} :
          piriTx' = [piriTx EXCEPT ![h] = rec]
    /\ UNCHANGED <<pieces, blobs, parked, localTx, clients, addRootCalls, watcher, pad, uploadSvc>>

---------------------------------------------------------------------------
Next ==
    \/ PreparePiece
    \/ UploadPiece
    \/ AddPieceToProofSet
    \/ MonitorTransactionStatus
    \/ \E h \in IndexedHashes : MonitorTransaction(h)
    \/ WatcherTick
    \/ \E h \in IndexedHashes : PiriIndexes(h)
    \/ \E h \in IndexedHashes : PiriResolves(h)

Spec == Init /\ [][Next]_vars

---------------------------------------------------------------------------
(* Concurrent callers: a client issues a call, waits for p.mutex, and the
   body then runs as one step while it holds the mutex *)

\* the calls concurrent clients make
ConcurrentRequests ==
    {Request("prepare", "", f, EmptyBytes, 0) : f \in {"f1"}}
    \cup {Request("upload", id, "", b, 0) : id \in PieceIDs,
                                            b \in {Bytes("a", 100), Bytes("a", 128)}}
    \cup AddRequests

Call(c) ==
    /\ clients[c].st # "called"
    /\ \E r \in ConcurrentRequests : clients' = [clients EXCEPT ![c] = r]
    /\ UNCHANGED <<pieces, blobs, parked, localTx, piriTx, addRootCalls, watcher, pad, uploadSvc>>

Waiting(c, op) == clients[c].st = "called" /\ clients[c].op = op

RunPreparePiece(c) ==
    /\ Waiting(c, "prepare")
    /\ PreparePieceBody(c, clients[c])

RunUploadPiece(c) ==
    /\ Waiting(c, "upload")
    /\ \E putFails \in BOOLEAN : UploadPieceBody(c, clients[c], putFails)

RunAddPieceToProofSet(c) ==
    /\ Waiting(c, "add")
    /\ \E dbFails \in BOOLEAN, reply \in AddRootReplies :
          AddPieceToProofSetBody(c, clients[c], dbFails, reply)

NextConcurrent ==
    \/ \E c \in Clients : Call(c)
    \/ \E c \in Clients : RunPreparePiece(c)
    \/ \E c \in Clients : RunUploadPiece(c)
    \/ \E c \in Clients : RunAddPieceToProofSet(c)

SpecConcurrent == Init /\ [][NextConcurrent]_vars

---------------------------------------------------------------------------
(* The goroutine of TransactionWatcher, Start and Stop: one step per
   blocking point of watchTransactions and processPendingTransactions *)

\* the hashes monitored and indexed while the watcher runs on its own
WatchedHashes == TxHashes

\* Start: wg.Add(1); go tw.watchTransactions(ctx)
Start ==
    /\ watcher.pc = "new"
    /\ watcher' = [watcher EXCEPT !.pc = "select"]
    /\ UNCHANGED <<pieces, blobs, parked, localTx, piriTx, clients, addRootCalls, pad, uploadSvc>>

\* variant: the tick enumerates every row of the table
PendingRowsAll == DOMAIN localTx

\* Where("tx_status = ?", "pending").Find(&pendingTxs)
PendingRows =={h \in DOMAIN localTx : localTx[h].TxStatus = "pending"}

\* variant: the goroutine returns when a tick returns an error
TickFailedExits(w) ==
    [w EXCEPT !.pc = "exited", !.lastTick = "error",
              !.afterError = (w.lastTick = "error")]

\* processPendingTransactions returned an error at its enumeration: the
\* loop logs it and goes back to the select
TickFailed(w) ==
    [w EXCEPT !.lastTick = "error", !.afterError = (w.lastTick = "error")]

\* case <-ticker.C: processPendingTransactions takes tw.mutex and
\* enumerates the pending rows.  enumFails: the query returns an error.
\* The select may take this case while the stop channel is closed too.
\* A tick with an empty batch has nothing to check and returns next.
TimerFires(enumFails) ==
    /\ watcher.pc = "select"
    /\ watcher' =
          IF enumFails THEN TickFailed(watcher)
          ELSE [watcher EXCEPT !.pc = "tick", !.batch = PendingRows,
                               !.todo = PendingRows, !.checked = {},
                               !.failed = {},
                               !.afterError = (watcher.lastTick = "error")]
    /\ UNCHANGED <<pieces, blobs, parked, localTx, piriTx, clients, addRootCalls, pad, uploadSvc>>

\* variant: an error of one entry ends the tick (return instead of continue)
AfterCheckAborting(w, h, err) ==
    IF err
    THEN [w EXCEPT !.pc = "select", !.batch = {}, !.todo = {}, !.checked = {},
                   !.failed = {}, !.lastTick = "error"]
    ELSE [w EXCEPT !.todo = @ \ {h}, !.checked = @ \cup {h}]

\* the loop over pendingTxs after checkTransactionStatus returned for row h:
\* an error is logged and the loop continues
AfterCheck(w, h, err) ==
    [w EXCEPT !.todo = @ \ {h}, !.checked = @ \cup {h},
              !.failed = IF err THEN @ \cup {h} ELSE @]

\* checkTransactionStatus changes the row: Piri has it with another status
StatusChanged(h) ==
    h \in DOMAIN piriTx /\ piriTx[h].TxStatus # localTx[h].TxStatus

\* variant: the update of a changed row is written to Piri's database
CheckEntryWritingBack(h, queryFails, updateFails) ==
    /\ watcher.pc = "tick"
    /\ h \in watcher.todo
    /\ LET err == queryFails \/ (StatusChanged(h) /\ updateFails)
       IN  /\ piriTx' = IF err \/ ~StatusChanged(h) THEN piriTx
                         ELSE [piriTx EXCEPT ![h] = localTx[h]]
           /\ watcher' = AfterCheck(watcher, h, err)
    /\ UNCHANGED <<pieces, blobs, parked, localTx, clients, addRootCalls, pad, uploadSvc>>

\* one iteration of the loop, for row h.  queryFails: the query of Piri's
\* database fails with an error other than ErrRecordNotFound; updateFails:
\* the update of the local row fails.
CheckEntry(h, queryFails, updateFails) ==
    /\ watcher.pc = "tick"
    /\ h \in watcher.todo
    /\ LET err == queryFails \/ (StatusChanged(h) /\ updateFails)
       IN  /\ localTx' = IF err THEN localTx
                         ELSE [localTx EXCEPT ![h] = CheckedTx(h)]
           /\ watcher' = AfterCheck(watcher, h, err)
    /\ UNCHANGED <<pieces, blobs, parked, piriTx, clients, addRootCalls, pad, uploadSvc>>

\* the batch is empty or the loop is over: return nil, tw.mutex released by
\* the deferred Unlock
TickReturns ==
    /\ watcher.pc = "tick"
    /\ watcher.todo = {}
    /\ watcher' = [watcher EXCEPT !.pc = "select", !.batch = {}, !.checked = {},
                                  !.failed = {}, !.lastTick = "ok"]
    /\ UNCHANGED <<pieces, blobs, parked, localTx, piriTx, clients, addRootCalls, pad, uploadSvc>>

\* Stop, up to wg.Wait(): close(tw.stopChan)
Stop ==
    /\ watcher.stop = "none"
    /\ watcher' = [watcher EXCEPT !.stopChan = "closed", !.stop = "waiting",
                                  !.stopAt = watcher.pc]
    /\ UNCHANGED <<pieces, blobs, parked, localTx, piriTx, clients, addRootCalls, pad, uploadSvc>>

\* case <-tw.stopChan: return (the deferred wg.Done and ticker.Stop run)
ObserveStop ==
    /\ watcher.pc = "select"
    /\ watcher.stopChan = "closed"
    /\ watcher' = [watcher EXCEPT !.pc = "exited"]
    /\ UNCHANGED <<pieces, blobs, parked, localTx, piriTx, clients, addRootCalls, pad, uploadSvc>>

\* variant: Stop does not wait for the goroutine
WaitGroupZeroNoWait(w) == TRUE

\* wg.Wait() returns: the counter Start raised was lowered by wg.Done, or
\* was never raised
WaitGroupZero(w) == w.pc \in {"new", "exited"}

\* Stop, from wg.Wait() to its return
StopReturns ==
    /\ watcher.stop = "waiting"
    /\ WaitGroupZero(watcher)
    /\ watcher' = [watcher EXCEPT !.stop = "returned"]
    /\ UNCHANGED <<pieces, blobs, parked, localTx, piriTx, clients, addRootCalls, pad, uploadSvc>>

\* a step of the goroutine inside a tick
TickStep ==
    \/ \E h \in WatchedHashes, queryFails \in BOOLEAN, updateFails \in BOOLEAN :
          CheckEntry(h, queryFails, updateFails)
    \/ TickReturns

NextWatcher ==
    \/ Start
    \/ \E enumFails \in BOOLEAN : TimerFires(enumFails)
    \/ TickStep
    \/ Stop
    \/ ObserveStop
    \/ StopReturns
    \/ \E h \in WatchedHashes : MonitorTransaction(h)
    \/ \E h \in WatchedHashes : PiriIndexes(h)
    \/ \E h \in WatchedHashes : PiriResolves(h)

\* the goroutine keeps running; a select with the stop channel closed takes
\* that case sooner or later; a returned wg.Wait lets Stop return
SpecWatcher ==
    /\ Init
    /\ [][NextWatcher]_vars
    /\ WF_vars(TickStep)
    /\ SF_vars(ObserveStop)
    /\ WF_vars(StopReturns)

---------------------------------------------------------------------------
(* p.mutex made explicit: a call waits for the mutex, takes it, runs and
   releases it.  AddPieceToProofSet writes the fields of the record one
   after the other; GetPiece hands out the pointer to the record, whose
   fields the handlers read after GetPiece has released the mutex. *)

\* the calls made in this setting
LockedRequests ==
    {Request("prepare", "", "f1", EmptyBytes, 0),
     Request("upload", "p1", "", Bytes("a", 128), 0),
     Request("monitor", "p1", "", EmptyBytes, 0),
     Request("get", "p1", "", EmptyBytes, 0)}
    \cup {Request("add", "p1", "", EmptyBytes, ps) : ps \in ProofSetIDs}

\* variant: MonitorTransactionStatus takes the read lock
LockKindMonitorReads(op) == IF op \in {"get", "monitor"} THEN "read" ELSE "write"

\* p.mutex.Lock() in PreparePiece, UploadPiece, AddPieceToProofSet and
\* MonitorTransactionStatus; p.mutex.RLock() in GetPiece
LockKind(op) == IF op = "get" THEN "read" ELSE "write"

\* the clients that hold p.mutex
Holders == {c \in Clients : clients[c].st \in {"locked", "writing"}}

\* the holders that hold it exclusively
Writers == {c \in Holders : LockKind(clients[c].op) = "write"}

CallLocked(c) ==
    /\ clients[c].st \in {"idle", "done"}
    /\ \E r \in LockedRequests : clients' = [clients EXCEPT ![c] = r]
    /\ UNCHANGED <<pieces, blobs, parked, localTx, piriTx, addRootCalls, watcher, pad, uploadSvc>>

\* Lock() returns when nobody holds the mutex, RLock() when no writer does
Acquire(c) ==
    /\ clients[c].st = "called"
    /\ IF LockKind(clients[c].op) = "write" THEN Holders = {} ELSE Writers = {}
    /\ clients' = [clients EXCEPT ![c].st = "locked"]
    /\ UNCHANGED <<pieces, blobs, parked, localTx, piriTx, addRootCalls, watcher, pad, uploadSvc>>

Inside(c, op) == clients[c].st = "locked" /\ clients[c].op = op

LockedPreparePiece(c) ==
    /\ Inside(c, "prepare")
    /\ PreparePieceBody(c, clients[c])

LockedUploadPiece(c) ==
    /\ Inside(c, "upload")
    /\ \E putFails \in BOOLEAN : UploadPieceBody(c, clients[c], putFails)

LockedMonitorTransactionStatus(c) ==
    /\ Inside(c, "monitor")
    /\ \E queryFails \in BOOLEAN :
          MonitorTransactionStatusBody(c, clients[c], queryFails)

\* AddPieceToProofSet returns before it calls ProofSetAddRoot
LockedAddRefused(c) ==
    /\ Inside(c, "add")
    /\ \E dbFails \in BOOLEAN :
          /\ AddPieceToProofSetBody(c, clients[c], dbFails,
                                    CHOOSE reply \in AddRootReplies : TRUE)
          /\ addRootCalls' = addRootCalls

\* the record after the first statement of the err != nil branch
\* (piece.Status = "error")
SubmitRejectedStatus(piece) == [piece EXCEPT !.Status = StatusError]

\* the record after the statements of the success path up to
\* piece.Status = "pending_confirmation"
SubmitAcceptedStatus(piece, proofSetID, reply) ==
    [piece EXCEPT !.TransactionHash = IF reply.isString THEN reply.str ELSE @,
                  !.ProofSetID = proofSetID,
                  !.Status = StatusPending]

\* AddPieceToProofSet from the status test to the write of piece.Status:
\* the rows are created, ProofSetAddRoot has answered
LockedAddWritesStatus(c) ==
    LET r == clients[c]
    IN  /\ Inside(c, "add")
        /\ r.id \in DOMAIN pieces
        /\ AddAllowed(pieces[r.id])
        /\ CIDDecodes(pieces[r.id].PieceCID)
        /\ UnsealedCIDDefined(pieces[r.id].Size)
        /\ ~ParkedInsertFails(pieces[r.id].PieceCID)
        /\ addRootCalls[r.id] < MaxAddRootCalls
        /\ parked' = createPiriDatabaseEntries(parked, pieces[r.id].PieceCID, 0)
        /\ addRootCalls' = [addRootCalls EXCEPT ![r.id] = @ + 1]
        /\ \E reply \in AddRootReplies :
              IF reply.fails
              THEN /\ pieces' = [pieces EXCEPT ![r.id] = SubmitRejectedStatus(@)]
                   /\ clients' = [clients EXCEPT ![c] =
                         [r EXCEPT !.st = "writing", !.err = "ledger",
                                   !.tx = reply.str]]
              ELSE /\ pieces' = [pieces EXCEPT ![r.id] =
                                    SubmitAcceptedStatus(@, r.ps, reply)]
                   /\ clients' = [clients EXCEPT ![c] =
                         [r EXCEPT !.st = "writing", !.err = "none",
                                   !.tx = IF reply.isString THEN reply.str
                                          ELSE "nonstring"]]
        /\ UNCHANGED <<blobs, localTx, piriTx, watcher, pad, uploadSvc>>

\* the last write of either branch (piece.ErrorMessage or
\* piece.TransactionTimestamp), the return and the deferred Unlock
LockedAddReturns(c) ==
    LET r == clients[c]
    IN  /\ r.st = "writing"
        /\ pieces' = [pieces EXCEPT ![r.id] =
              IF r.err = "ledger"
              THEN [@ EXCEPT !.ErrorMessage =
                                "failed to add root to proof set: " \o r.tx]
              ELSE [@ EXCEPT !.TransactionTimestamp = TimeNow]]
        /\ clients' = [clients EXCEPT ![c] =
              [r EXCEPT !.st = "done", !.tx = IF r.err = "ledger" THEN "" ELSE @]]
        /\ UNCHANGED <<blobs, parked, localTx, piriTx, addRootCalls, watcher, pad, uploadSvc>>

\* GetPiece: the lookup under the read lock; the pointer to the record is
\* returned and the deferred RUnlock runs
GetPieceReturns(c) ==
    /\ Inside(c, "get")
    /\ clients' = [clients EXCEPT ![c] =
          IF clients[c].id \in DOMAIN pieces
          THEN [@ EXCEPT !.st = "reading"]
          ELSE [@ EXCEPT !.st = "done", !.err = "not_found"]]
    /\ UNCHANGED <<pieces, blobs, parked, localTx, piriTx, addRootCalls, watcher, pad, uploadSvc>>

\* the record as the handler, which holds no lock, reads it through the
\* pointer
RecordRead(c) == pieces[clients[c].id]

\* a record as no operation leaves it: a failure status without a message,
\* or a pending status without a submission time
Torn(piece) ==
    \/ piece.Status \in {StatusTxFailed, StatusError} /\ piece.ErrorMessage = ""
    \/ piece.Status = StatusPending /\ piece.TransactionTimestamp = ZeroTime

\* handleGetPiece, handleGetTransactionStatus: read the fields and answer;
\* seen is the status in the answer, tx says whether the answer was torn
HandlerReads(c) ==
    /\ clients[c].st = "reading"
    /\ clients' = [clients EXCEPT ![c] =
          [@ EXCEPT !.st = "done", !.seen = RecordRead(c).Status,
                    !.tx = IF Torn(RecordRead(c)) THEN "torn" ELSE "whole"]]
    /\ UNCHANGED <<pieces, blobs, parked, localTx, piriTx, addRootCalls, watcher, pad, uploadSvc>>

NextLocked ==
    \/ \E c \in Clients : CallLocked(c)
    \/ \E c \in Clients : Acquire(c)
    \/ \E c \in Clients : LockedPreparePiece(c)
    \/ \E c \in Clients : LockedUploadPiece(c)
    \/ \E c \in Clients : LockedMonitorTransactionStatus(c)
    \/ \E c \in Clients : LockedAddRefused(c)
    \/ \E c \in Clients : LockedAddWritesStatus(c)
    \/ \E c \in Clients : LockedAddReturns(c)
    \/ \E c \in Clients : GetPieceReturns(c)
    \/ \E c \in Clients : HandlerReads(c)

SpecLocked == Init /\ [][NextLocked]_vars

---------------------------------------------------------------------------
(* The piece service and the running watcher side by side: one client
   whose calls take p.mutex, and the goroutine of the watcher, which takes
   tw.mutex *)

ReconcileRequests ==
    {Request("upload", "p1", "", Bytes("a", 128), 0),
     Request("monitor", "p1", "", EmptyBytes, 0)}
    \cup {Request("add", "p1", "", EmptyBytes, ps) : ps \in ProofSetIDs}

CallReconcile ==
    /\ clients[Caller].st \in {"idle", "done"}
    /\ \E r \in ReconcileRequests : clients' = [clients EXCEPT ![Caller] = r]
    /\ UNCHANGED <<pieces, blobs, parked, localTx, piriTx, addRootCalls, watcher, pad, uploadSvc>>

\* AddPieceToProofSet from Lock to Unlock
LockedAddPieceToProofSet(c) ==
    /\ Inside(c, "add")
    /\ \E dbFails \in BOOLEAN, reply \in AddRootReplies :
          AddPieceToProofSetBody(c, clients[c], dbFails, reply)

NextReconcile ==
    \/ CallReconcile
    \/ Acquire(Caller)
    \/ LockedUploadPiece(Caller)
    \/ LockedAddPieceToProofSet(Caller)
    \/ LockedMonitorTransactionStatus(Caller)
    \/ Start
    \/ \E enumFails \in BOOLEAN : TimerFires(enumFails)
    \/ TickStep
    \/ \E h \in IndexedHashes : MonitorTransaction(h)
    \/ \E h \in IndexedHashes : PiriIndexes(h)
    \/ \E h \in IndexedHashes : PiriResolves(h)

\* the watcher is started, its timer keeps firing, its enumeration works
\* again and again, and a tick that has begun goes on
SpecReconcile ==
    /\ Init
    /\ [][NextReconcile]_vars
    /\ WF_vars(Start)
    /\ WF_vars(TimerFires(FALSE))
    /\ WF_vars(TickStep)

---------------------------------------------------------------------------
(* A further call of TransactionWatcher.Stop, after or during the first *)

\* Stop called when the stop channel is closed already: close(tw.stopChan)
\* panics ("close of closed channel"); nothing recovers, the process ends
StopOnClosed ==
    /\ watcher.stopChan = "closed"
    /\ watcher.pc # "crashed"
    /\ watcher' = [watcher EXCEPT !.pc = "crashed", !.stop = "panicked"]
    /\ UNCHANGED <<pieces, blobs, parked, localTx, piriTx, clients, addRootCalls, pad, uploadSvc>>

NextStop ==
    \/ NextWatcher
    \/ StopOnClosed

SpecStop == Init /\ [][NextStop]_vars

---------------------------------------------------------------------------
(* PDPServer.Start and PDPServer.Stop around the running watcher.  main
   passes context.Background() to Start, so the goroutine's ctx.Done() case
   is never taken. *)

ServerCall(op) == Request(op, "", "", EmptyBytes, 0)

\* PDPServer.Start: s.txWatcher.Start(ctx), which starts the goroutine
PDPServerStart ==
    /\ clients[Caller].st = "idle"
    /\ watcher.pc = "new"
    /\ watcher' = [watcher EXCEPT !.pc = "select"]
    /\ clients' = Done(Caller, ServerCall("start"), "none", "")
    /\ UNCHANGED <<pieces, blobs, parked, localTx, piriTx, addRootCalls, pad, uploadSvc>>

\* PDPServer.Stop: s.piriServer.Stop(ctx) and nothing else
PDPServerStop ==
    /\ clients[Caller].st = "done" /\ clients[Caller].op = "start"
    /\ clients' = Done(Caller, ServerCall("stop"), "none", "")
    /\ UNCHANGED <<pieces, blobs, parked, localTx, piriTx, addRootCalls, watcher, pad, uploadSvc>>

NextServer ==
    \/ PDPServerStart
    \/ PDPServerStop
    \/ \E enumFails \in BOOLEAN : TimerFires(enumFails)
    \/ TickStep
    \/ \E h \in WatchedHashes : MonitorTransaction(h)
    \/ \E h \in WatchedHashes : PiriIndexes(h)
    \/ \E h \in WatchedHashes : PiriResolves(h)

SpecServer == Init /\ [][NextServer]_vars

---------------------------------------------------------------------------
(* TransactionWatcher.MonitorTransaction called again and again while the
   watcher runs.  The table has a unique index on signed_tx_hash, so it is
   a map from hashes to rows. *)

\* variant: the row is written whether the hash is known or not
MonitorTransactionRowsUpsert(rows, h) == MapPut(rows, h, TxRecord("pending", "nil"))

\* the table after MonitorTransaction(h): First() finds the row and the call
\* returns, or Create() inserts a pending row
MonitorTransactionRows(rows, h) ==
    IF h \in DOMAIN rows THEN rows
    ELSE MapPut(rows, h, TxRecord("pending", "nil"))

\* the status of the row of h, as a caller of MonitorTransaction finds it
RowStatus(h) == IF h \in DOMAIN localTx THEN localTx[h].TxStatus ELSE "absent"

\* MonitorTransaction(h) from Lock to Unlock of tw.mutex, called by the
\* client; seen notes what First() found
MonitorTransactionCall(h) ==
    /\ ~TwMutexHeld
    /\ localTx' = MonitorTransactionRows(localTx, h)
    /\ clients' = Done(Caller, [ServerCall("watch") EXCEPT !.seen = RowStatus(h)],
                       "none", h)
    /\ UNCHANGED <<pieces, blobs, parked, piriTx, addRootCalls, watcher, pad, uploadSvc>>

NextMonitor ==
    \/ \E h \in WatchedHashes : MonitorTransactionCall(h)
    \/ Start
    \/ \E enumFails \in BOOLEAN : TimerFires(enumFails)
    \/ TickStep
    \/ \E h \in WatchedHashes : PiriIndexes(h)
    \/ \E h \in WatchedHashes : PiriResolves(h)

SpecMonitor == Init /\ [][NextMonitor]_vars

---------------------------------------------------------------------------
(* padToPowerOfTwo applied to a byte sequence, and to its own result *)

\* every sequence of at most MaxPadLen bytes is an input
MaxPadLen == 5

\* a zero byte and a non-zero byte
PadByteValues == {0, 1}

\* lengths of the longer inputs
LongPadLens == {11, 21, 1024}

LongPadInput(n) == [i \in 1..n |-> i % 256]

PadInputs ==
    UNION {[1..n -> PadByteValues] : n \in 0..MaxPadLen}
    \cup {LongPadInput(n) : n \in LongPadLens}

InitPad ==
    /\ pieces = [x \in {} |-> 0]
    /\ blobs = {}
    /\ parked = {}
    /\ localTx = [x \in {} |-> 0]
    /\ piriTx = [x \in {} |-> 0]
    /\ clients = [c \in Clients |-> Idle]
    /\ addRootCalls = [id \in PieceIDs |-> 0]
    /\ watcher = NewTransactionWatcher
    /\ \E x \in PadInputs : pad = [pc |-> "in", x |-> x, once |-> <<>>, twice |-> <<>>]
    /\ uploadSvc = NewUploadService

\* paddedContent := padToPowerOfTwo(content)
PadOnce ==
    /\ pad.pc = "in"
    /\ pad' = [pad EXCEPT !.pc = "once", !.once = padToPowerOfTwoSeq(pad.x)]
    /\ UNCHANGED <<pieces, blobs, parked, localTx, piriTx, clients, addRootCalls, watcher, uploadSvc>>

\* padToPowerOfTwo applied to the padded content
PadAgain ==
    /\ pad.pc = "once"
    /\ pad' = [pad EXCEPT !.pc = "twice", !.twice = padToPowerOfTwoSeq(pad.once)]
    /\ UNCHANGED <<pieces, blobs, parked, localTx, piriTx, clients, addRootCalls, watcher, uploadSvc>>

NextPad ==
    \/ PadOnce
    \/ PadAgain

SpecPad == InitPad /\ [][NextPad]_vars

---------------------------------------------------------------------------
(* UploadService: concurrent calls of UploadFile, and a restart *)

\* the CIDs the uploaded files hash to, and the names they are uploaded under
UploadCIDs == {"k1", "k2"}

UploadNames == {"a.txt", "b.txt"}

OtherFrame == <<pieces, blobs, parked, localTx, piriTx, clients, addRootCalls, watcher, pad>>

\* "Convert map to slice": the entries saveMetadata marshals, one for each
\* key of the map (the order of the slice is the map's iteration order and
\* is not kept)
MetadataOf(uploads) == {[CID |-> k, Filename |-> uploads[k]] : k \in DOMAIN uploads}

\* "Load into map": every entry of the file is stored under its CID
loadMetadata(file) ==
    [k \in {e.CID : e \in file} |-> (CHOOSE e \in file : e.CID = k).Filename]

\* variant: saveMetadata gives the read lock back before it writes the file
ReadLockHeldWhileCopying(call) == call.pc = "never"

\* saveMetadata holds s.mutex.RLock from its first line until it returns
ReadLockHeld(call) == call.pc \in {"copied", "truncated"}

\* s.mutex.Lock() is granted when no saveMetadata holds the read lock
UploadsLockFree == \A c \in Clients : ~ReadLockHeld(uploadSvc.calls[c])

UploadsReturned == \A c \in Clients : uploadSvc.calls[c].pc \in {"idle", "done", "failed"}

\* UploadFile returns an error before it tracks the upload
UploadFileFails(c) ==
    /\ uploadSvc.calls[c].pc \in {"idle", "done", "failed"}
    /\ \E k \in UploadCIDs, n \in UploadNames :
         uploadSvc' = [uploadSvc EXCEPT
                          !.calls[c] = [pc |-> "failed", cid |-> k, name |-> n, snap |-> {}]]
    /\ UNCHANGED OtherFrame

\* UploadFile up to s.mutex.Unlock(): the file is stored and tracked under
\* its CID
UploadFileTracks(c) ==
    /\ uploadSvc.calls[c].pc \in {"idle", "done", "failed"}
    /\ UploadsLockFree
    /\ \E k \in UploadCIDs, n \in UploadNames :
         uploadSvc' = [uploadSvc EXCEPT
                          !.uploads = MapPut(@, k, n),
                          !.calls[c] = [pc |-> "tracked", cid |-> k, name |-> n, snap |-> {}]]
    /\ UNCHANGED OtherFrame

\* saveMetadata takes the read lock and copies the map
SaveCopies(c) ==
    /\ uploadSvc.calls[c].pc = "tracked"
    /\ uploadSvc' = [uploadSvc EXCEPT !.calls[c].pc = "copied",
                                      !.calls[c].snap = MetadataOf(uploadSvc.uploads)]
    /\ UNCHANGED OtherFrame

\* os.WriteFile opens the metadata file, which empties it
SaveTruncates(c) ==
    /\ uploadSvc.calls[c].pc = "copied"
    /\ uploadSvc' = [uploadSvc EXCEPT !.calls[c].pc = "truncated", !.file = {}]
    /\ UNCHANGED OtherFrame

\* os.WriteFile writes the marshalled copy; saveMetadata and UploadFile return
SaveWrites(c) ==
    /\ uploadSvc.calls[c].pc = "truncated"
    /\ uploadSvc' = [uploadSvc EXCEPT !.calls[c].pc = "done",
                                      !.file = uploadSvc.calls[c].snap]
    /\ UNCHANGED OtherFrame

\* the server is started again over the same data directory
\* (NewUploadService) while no call is under way
Restart ==
    /\ UploadsReturned
    /\ \E c \in Clients : uploadSvc.calls[c].pc # "idle"
    /\ uploadSvc' = [NewUploadService EXCEPT !.file = uploadSvc.file,
                                             !.uploads = loadMetadata(uploadSvc.file)]
    /\ UNCHANGED OtherFrame

NextUpload ==
    \/ \E c \in Clients : UploadFileFails(c)
    \/ \E c \in Clients : UploadFileTracks(c)
    \/ \E c \in Clients : SaveCopies(c)
    \/ \E c \in Clients : SaveTruncates(c)
    \/ \E c \in Clients : SaveWrites(c)
    \/ Restart

SpecUpload == Init /\ [][NextUpload]_vars

---------------------------------------------------------------------------
(* Properties *)

Exists(id) == id \in DOMAIN pieces

HasStatus(id, st) == Exists(id) /\ pieces[id].Status = st

Terminal(id) == HasStatus(id, StatusAdded) \/ HasStatus(id, StatusTxFailed)

\* the result of the call the Caller made last
Last == clients[Caller]

\* the call the Caller returns from in this step, as it was issued
StepCall == [clients'[Caller] EXCEPT !.st = "called", !.err = "none", !.tx = ""]

\* this step is the body of call r of kind op, made by the Caller
StepOf(op) == clients'[Caller].st = "done" /\ clients'[Caller].op = op

AcceptingReplies == {reply \in AddRootReplies : ~reply.fails}

RejectingReplies == {reply \in AddRootReplies : reply.fails}

\* the step submitted piece id to the ledger
LedgerCalled(id) == addRootCalls'[id] = addRootCalls[id] + 1

StatusEdges ==
    {<<StatusPrepared, StatusUploaded>>, <<StatusUploaded, StatusPending>>,
     <<StatusPending, StatusAdded>>, <<StatusPending, StatusTxFailed>>,
     <<StatusUploaded, StatusError>>, <<StatusPending, StatusError>>}

\* C1: in every step, a piece record that exists before and after the step
\* either keeps its status or moves along one of the edges Prepared->Uploaded,
\* Uploaded->PendingConfirmation, PendingConfirmation->AddedToProofSet,
\* PendingConfirmation->TransactionFailed, Uploaded->Error,
\* PendingConfirmation->Error.
C1_StatusFollowsEdges ==
    [][\A id \in PieceIDs :
          (Exists(id) /\ id \in DOMAIN pieces' /\ pieces'[id].Status # pieces[id].Status)
             => <<pieces[id].Status, pieces'[id].Status>> \in StatusEdges]_vars

\* C2: AddPieceToProofSet on an existing piece whose status is not Uploaded
\* returns the state error, does not call the ledger, writes no database row
\* and leaves the piece map unchanged.
C2_AddRefusedUnlessUploaded ==
    [][(/\ StepOf("add")
        /\ Exists(StepCall.id) /\ pieces[StepCall.id].Status # StatusUploaded
        /\ \E dbFails \in BOOLEAN, reply \in AddRootReplies :
              AddPieceToProofSetBody(Caller, StepCall, dbFails, reply))
       => /\ clients'[Caller].err = "state"
          /\ pieces' = pieces
          /\ addRootCalls' = addRootCalls
          /\ parked' = parked]_vars

\* a call of AddPieceToProofSet on a piece that was not Uploaded has returned
C2_Witness ==
    /\ Last.st = "done" /\ Last.op = "add" /\ Last.err = "state"
    /\ Last.seen \in {StatusPrepared, StatusPending, StatusAdded, StatusTxFailed, StatusError}
    /\ HasStatus(Last.id, Last.seen)

\* C3: a step of MonitorTransactionStatus or of the watcher's tick leaves
\* every field of a piece that is AddedToProofSet or TransactionFailed
\* unchanged.
C3_TerminalUnchangedByReconciliation ==
    [][\A id \in PieceIDs :
          (Terminal(id) /\ (MonitorTransactionStatus \/ WatcherTick))
             => (id \in DOMAIN pieces' /\ pieces'[id] = pieces[id])]_vars

\* MonitorTransactionStatus has returned from a call on a terminal piece
C3_Witness ==
    /\ Last.st = "done" /\ Last.op = "monitor"
    /\ Last.seen \in {StatusAdded, StatusTxFailed}
    /\ Terminal(Last.id)

\* the row MonitorTransactionStatus finds for piece id, if any
RowFound(id) == pieces[id].TransactionHash \in DOMAIN localTx

Row(id) == localTx[pieces[id].TransactionHash]

Reconcilable(id) == HasStatus(id, StatusPending) /\ pieces[id].TransactionHash # ""

\* C4: MonitorTransactionStatus on a PendingConfirmation piece whose row is
\* found with status confirmed and success true returns no error and leaves
\* the piece AddedToProofSet with an empty error message.
C4_ConfirmedSuccessAdds ==
    [][(/\ StepOf("monitor")
        /\ Reconcilable(StepCall.id) /\ RowFound(StepCall.id)
        /\ Row(StepCall.id) = TxRecord("confirmed", "true")
        /\ MonitorTransactionStatusBody(Caller, StepCall, FALSE))
       => /\ clients'[Caller].err = "none"
          /\ pieces'[StepCall.id].Status = StatusAdded
          /\ pieces'[StepCall.id].ErrorMessage = ""]_vars

\* a monitored piece has become AddedToProofSet
C4_Witness ==
    /\ Last.st = "done" /\ Last.op = "monitor" /\ Last.seen = StatusPending
    /\ Last.err = "none"
    /\ HasStatus(Last.id, StatusAdded)

\* C5: MonitorTransactionStatus on a PendingConfirmation piece whose row is
\* found with status confirmed and success false or absent leaves the piece
\* TransactionFailed with a non-empty error message.
C5_ConfirmedFailureFails ==
    [][(/\ StepOf("monitor")
        /\ Reconcilable(StepCall.id) /\ RowFound(StepCall.id)
        /\ Row(StepCall.id).TxStatus = "confirmed"
        /\ Row(StepCall.id).TxSuccess # "true"
        /\ MonitorTransactionStatusBody(Caller, StepCall, FALSE))
       => /\ pieces'[StepCall.id].Status = StatusTxFailed
          /\ pieces'[StepCall.id].ErrorMessage # ""]_vars

\* a monitored piece has become TransactionFailed on a confirmed transaction
\* that carries no success flag
C5_Witness ==
    /\ Last.st = "done" /\ Last.op = "monitor" /\ Last.seen = StatusPending
    /\ HasStatus(Last.id, StatusTxFailed)
    /\ localTx[pieces[Last.id].TransactionHash] = TxRecord("confirmed", "nil")

\* the row of piece id is missing or has status pending
RowPending(id) == ~RowFound(id) \/ Row(id).TxStatus = "pending"

\* C6: while the row of a PendingConfirmation piece with a transaction hash
\* is missing or pending, MonitorTransactionStatus (its query answered)
\* returns no error, and neither it nor a watcher tick changes any field of
\* the piece.
C6_PendingRowNoTransition ==
    [][/\ (/\ StepOf("monitor")
           /\ Reconcilable(StepCall.id) /\ RowPending(StepCall.id)
           /\ MonitorTransactionStatusBody(Caller, StepCall, FALSE))
          => /\ clients'[Caller].err = "none"
             /\ pieces'[StepCall.id] = pieces[StepCall.id]
       /\ \A id \in PieceIDs :
             (Reconcilable(id) /\ RowPending(id) /\ WatcherTick)
                => pieces'[id] = pieces[id]]_vars

\* MonitorTransactionStatus has returned without error and the piece is
\* still pending on a row with status pending
C6_Witness ==
    /\ Last.st = "done" /\ Last.op = "monitor" /\ Last.seen = StatusPending
    /\ Last.err = "none"
    /\ Reconcilable(Last.id) /\ RowFound(Last.id)
    /\ Row(Last.id).TxStatus = "pending"

\* C7: when AddPieceToProofSet on an Uploaded piece reaches the ledger and
\* the ledger accepts, the call returns no error and the piece is
\* PendingConfirmation with the requested proof set, a set timestamp and,
\* when the ledger returned a string, that string as its transaction hash.
C7_AcceptedSubmissionPending ==
    [][\A reply \in AcceptingReplies :
          (/\ StepOf("add")
           /\ HasStatus(StepCall.id, StatusUploaded)
           /\ LedgerCalled(StepCall.id)
           /\ AddPieceToProofSetBody(Caller, StepCall, FALSE, reply))
          => /\ clients'[Caller].err = "none"
             /\ pieces'[StepCall.id].Status = StatusPending
             /\ pieces'[StepCall.id].ProofSetID = StepCall.ps
             /\ pieces'[StepCall.id].TransactionTimestamp # ZeroTime
             /\ (reply.isString => pieces'[StepCall.id].TransactionHash = reply.str)]_vars

\* an accepted submission has returned a transaction hash
C7_Witness ==
    /\ Last.st = "done" /\ Last.op = "add" /\ Last.seen = StatusUploaded
    /\ Last.err = "none" /\ Last.tx \in TxHashes
    /\ HasStatus(Last.id, StatusPending)
    /\ pieces[Last.id].TransactionHash = Last.tx

\* C8: when the ledger rejects the submission of an Uploaded piece, the call
\* returns the ledger's error, the piece is in Error with a message that
\* carries the ledger's reason, no transaction hash is recorded and the
\* ledger was called exactly once.
C8_RejectedSubmissionError ==
    [][\A reply \in RejectingReplies :
          (/\ StepOf("add")
           /\ HasStatus(StepCall.id, StatusUploaded)
           /\ addRootCalls'[StepCall.id] # addRootCalls[StepCall.id]
           /\ AddPieceToProofSetBody(Caller, StepCall, FALSE, reply))
          => /\ clients'[Caller].err = "ledger"
             /\ pieces'[StepCall.id].Status = StatusError
             /\ pieces'[StepCall.id].ErrorMessage =
                   "failed to add root to proof set: " \o reply.str
             /\ pieces'[StepCall.id].TransactionHash = ""
             /\ pieces'[StepCall.id].TransactionTimestamp = ZeroTime
             /\ LedgerCalled(StepCall.id)]_vars

\* a rejected submission has returned
C8_Witness ==
    /\ Last.st = "done" /\ Last.op = "add" /\ Last.seen = StatusUploaded
    /\ Last.err = "ledger"
    /\ HasStatus(Last.id, StatusError)
    /\ addRootCalls[Last.id] = 1

\* both clients have returned from AddPieceToProofSet calls on piece id that
\* they issued while the piece was Uploaded and had no parked rows, and
\* neither call met a failing database or a rejecting ledger
BothSubmitted(id) ==
    \A c \in Clients :
        /\ clients[c].st = "done" /\ clients[c].op = "add" /\ clients[c].id = id
        /\ clients[c].seen = StatusUploaded /\ ~clients[c].rows
        /\ clients[c].err \notin {"db", "ledger"}

\* the hash AddPieceToProofSet stores for the value a successful call got
StoredHash(tx) == IF tx = "nonstring" THEN "" ELSE tx

\* C9: of two AddPieceToProofSet calls issued on the same Uploaded piece,
\* whichever order they take the mutex in, exactly one returns no error and
\* the other the state error, and the piece is PendingConfirmation with the
\* transaction hash of the call that succeeded.
C9_OneOfTwoSubmissionsWins ==
    \A id \in PieceIDs :
        BothSubmitted(id)
        => \E winner \in Clients :
              /\ clients[winner].err = "none"
              /\ \A c \in Clients \ {winner} : clients[c].err = "state"
              /\ HasStatus(id, StatusPending)
              /\ pieces[id].TransactionHash = StoredHash(clients[winner].tx)
              /\ addRootCalls[id] = 1

\* c2 took the mutex first and won, c1 got the state error
C9_Witness ==
    /\ BothSubmitted("p1")
    /\ clients["c2"].err = "none" /\ clients["c2"].tx = "h2"
    /\ clients["c1"].err = "state"

UploadedOrLater ==
    {StatusUploaded, StatusPending, StatusAdded, StatusTxFailed, StatusError}

\* C11: UploadPiece on an id whose piece is Uploaded or in a later status
\* returns the already-exists error and changes neither the piece map nor the
\* blob store; an upload that succeeds is on an id that had no record, and no
\* step removes a record, so at most one upload succeeds per id.
C11_SecondUploadRefused ==
    [][/\ (/\ StepOf("upload")
           /\ Exists(StepCall.id)
           /\ pieces[StepCall.id].Status \in UploadedOrLater
           /\ \E putFails \in BOOLEAN : UploadPieceBody(Caller, StepCall, putFails))
          => /\ clients'[Caller].err = "exists"
             /\ pieces' = pieces
             /\ blobs' = blobs
       /\ (StepOf("upload") /\ clients'[Caller].err = "none" /\ pieces' # pieces)
          => ~Exists(StepCall.id)
       /\ DOMAIN pieces \subseteq DOMAIN pieces']_vars

\* an upload on a piece that was PendingConfirmation has been refused
C11_Witness ==
    /\ Last.st = "done" /\ Last.op = "upload" /\ Last.err = "exists"
    /\ Last.seen = StatusPending
    /\ HasStatus(Last.id, StatusPending)

\* C12: UploadPiece with non-empty bytes on a piece that PreparePiece created
\* (status Prepared) returns no error and leaves the piece Uploaded with the
\* padded size, the commitment and the piece CID of the padded bytes, and the
\* blob stored under that piece CID.
C12_PreparedCanBeUploaded ==
    [][(/\ StepOf("upload")
        /\ HasStatus(StepCall.id, StatusPrepared)
        /\ StepCall.content.len > 0
        /\ CommPDefined(padToPowerOfTwo(StepCall.content))
        /\ UploadPieceBody(Caller, StepCall, FALSE))
       => /\ clients'[Caller].err = "none"
          /\ pieces'[StepCall.id] =
                NewUploadedPiece(StepCall.id, padToPowerOfTwo(StepCall.content))
          /\ pieces'[StepCall.id].PieceCID \in blobs']_vars

\* C13: no two distinct piece records have the same id or the same non-empty
\* piece CID.
C13_UniqueIdAndContentIdentifier ==
    \A id1, id2 \in DOMAIN pieces :
        id1 # id2
        => /\ pieces[id1].ID # pieces[id2].ID
           /\ (pieces[id1].PieceCID # NoCID
                  => pieces[id1].PieceCID # pieces[id2].PieceCID)

\* the watcher's tick checks the transaction of piece id: the local row is
\* pending and Piri's database has a row for it
TickChecks(id) ==
    /\ Reconcilable(id) /\ RowFound(id) /\ Row(id).TxStatus = "pending"
    /\ pieces[id].TransactionHash \in DOMAIN piriTx

\* C20: a watcher tick that checks the transaction of a PendingConfirmation
\* piece leaves the piece in the state MonitorTransactionStatus gives it for
\* the same transaction record (AddedToProofSet on a confirmed success,
\* TransactionFailed on another confirmed record, unchanged otherwise).
C20_TickEqualsMonitor ==
    [][\A id \in PieceIDs :
          (TickChecks(id) /\ WatcherTick)
             => pieces'[id] =
                   ApplyTxStatus(pieces[id], piriTx[pieces[id].TransactionHash])]_vars

\* Stop was called while the goroutine was running
StoppedWhileRunning == watcher.stopAt \in {"select", "tick"}

\* C18: after Stop on a started watcher, Stop returns only once the
\* goroutine has returned; a tick ends only by going through all of its
\* batch; a goroutine that has seen the stop signal starts no tick and
\* never runs again; and the goroutine does return and Stop does return.
C18_GracefulStop ==
    /\ []((watcher.stop = "returned" /\ StoppedWhileRunning)
             => (watcher.pc = "exited" /\ watcher.todo = {}))
    /\ [][/\ (watcher.pc = "tick" /\ watcher'.pc # "tick")
             => (watcher.todo = {} /\ watcher'.pc = "select")
          /\ watcher.pc = "exited"
             => /\ watcher'.pc = "exited"
                /\ \A h \in DOMAIN localTx : localTx'[h] = localTx[h]]_vars
    /\ ((watcher.stop = "waiting" /\ StoppedWhileRunning)
           ~> (watcher.pc = "exited" /\ watcher.stop = "returned"))

\* Stop was called during a tick and has returned after the goroutine ended
C18_Witness ==
    /\ watcher.stop = "returned"
    /\ watcher.stopAt = "tick"
    /\ watcher.pc = "exited"

\* C19: an entry whose check fails leaves the tick in progress with the
\* other entries of its batch still to be checked; a tick ends only after
\* every entry of its batch was checked, and then returns no error; and a
\* tick that fails at its enumeration leaves the goroutine in its select,
\* where the timer starts the next tick.
C19_TickFailuresIsolated ==
    /\ [][/\ (watcher.pc = "tick" /\ watcher'.failed \ watcher.failed # {})
             => /\ watcher'.pc = "tick"
                /\ watcher'.batch = watcher.batch
                /\ watcher'.todo \cup watcher'.checked = watcher.batch
          /\ (watcher.pc = "tick" /\ watcher'.pc # "tick")
             => /\ watcher.checked = watcher.batch
                /\ watcher'.pc = "select"
                /\ watcher'.lastTick = "ok"
          /\ (watcher.lastTick # "error" /\ watcher'.lastTick = "error")
             => (watcher.pc = "select" /\ watcher'.pc = "select")]_vars
    /\ []((watcher.pc = "select" /\ watcher.lastTick = "error")
             => ENABLED TimerFires(FALSE))

\* a tick started after a tick that failed as a whole has checked both
\* entries of its batch although the check of one of them failed
C19_Witness ==
    /\ watcher.pc = "tick" /\ watcher.todo = {}
    /\ watcher.afterError
    /\ watcher.batch = {"h1", "h2"}
    /\ watcher.checked = watcher.batch
    /\ watcher.failed = {"h1"}
    /\ localTx["h2"].TxStatus = "confirmed"

MutatingOps == {"prepare", "upload", "add", "monitor"}

\* the clients that are inside the critical section of a mutating operation
Mutating ==
    {c \in Clients : /\ clients[c].st \in {"locked", "writing"}
                     /\ clients[c].op \in MutatingOps}

\* C15: at most one of PreparePiece, UploadPiece, AddPieceToProofSet and
\* MonitorTransactionStatus is between taking and releasing p.mutex, and
\* while one is, no GetPiece holds the read lock.
C15_OneMutationAtATime ==
    /\ Cardinality(Mutating) <= 1
    /\ Mutating # {} => Holders = Mutating

\* AddPieceToProofSet is between its writes while a MonitorTransactionStatus
\* call on the same piece waits for the mutex
C15_Witness ==
    /\ clients["c1"].st = "writing" /\ clients["c1"].op = "add"
    /\ clients["c2"].st = "called" /\ clients["c2"].op = "monitor"
    /\ clients["c2"].id = clients["c1"].id

\* C17: a handler that reads the fields of the record GetPiece returned does
\* so while no mutating operation is between its writes to that record, and
\* its answer never shows a failure status without a message or a pending
\* status without a submission time.
C17_ReadersSeeWholeRecords ==
    \A c \in Clients :
        /\ clients[c].st = "reading"
           => \A w \in Clients :
                 ~(clients[w].st = "writing" /\ clients[w].id = clients[c].id)
        /\ (clients[c].st = "done" /\ clients[c].op = "get")
           => clients[c].tx # "torn"

\* Piri's database reports the transaction of piece id as confirmed
LedgerConfirmed(id) ==
    /\ pieces[id].TransactionHash \in DOMAIN piriTx
    /\ piriTx[pieces[id].TransactionHash].TxStatus = "confirmed"

\* MonitorTransactionStatus is the call the client made last
ManualMonitor == clients[Caller].op = "monitor"

\* C14: once a piece is PendingConfirmation, the watcher runs and has a row
\* for the transaction, and Piri's database reports the transaction as
\* confirmed, the ticks alone (no MonitorTransactionStatus call being made)
\* bring the piece to AddedToProofSet or TransactionFailed.
C14_TicksReachTerminal ==
    \A id \in PieceIDs :
        (/\ Reconcilable(id) /\ RowFound(id) /\ LedgerConfirmed(id)
         /\ watcher.pc \in {"select", "tick"})
           ~> (Terminal(id) \/ ManualMonitor)

\* C16: while MonitorTransactionStatus is between taking and releasing its
\* lock for a PendingConfirmation piece, no tick of the watcher is between
\* taking and releasing its own lock with the row of that piece's
\* transaction still to be read and written.
C16_TickAndMonitorSerialized ==
    \A c \in Clients :
        (Inside(c, "monitor") /\ Reconcilable(clients[c].id))
           => ~(/\ TwMutexHeld
                /\ pieces[clients[c].id].TransactionHash \in watcher.todo)

\* C21: ProofSetAddRoot has been called at most once for any piece id,
\* whatever calls were made and in whatever order their bodies took the
\* mutex.
C21_AddRootAtMostOncePerPiece == \A id \in PieceIDs : addRootCalls[id] <= 1

\* a piece was submitted once, the ledger rejected it, and a later
\* AddPieceToProofSet on it was refused before it reached the ledger
C21_Witness ==
    /\ Last.st = "done" /\ Last.op = "add" /\ Last.seen = StatusError
    /\ Last.err = "state"
    /\ addRootCalls[Last.id] = 1

\* C22: every step of a piece operation, of MonitorTransaction and of the
\* watcher's goroutine leaves the transaction records of Piri's database
\* unchanged (none created, updated or deleted), and a row of the local table
\* that a tick changes becomes the copy of Piri's record for the same hash.
C22_LedgerRecordsReadOnly ==
    [][/\ (clients' # clients \/ watcher' # watcher \/ pieces' # pieces
             \/ localTx' # localTx)
          => piriTx' = piriTx
       /\ \A h \in DOMAIN localTx :
             (watcher.pc = "tick" /\ localTx'[h] # localTx[h])
                => (h \in DOMAIN piriTx /\ localTx'[h] = piriTx[h])]_vars

\* a tick has copied the confirmed record of the transaction of a
\* PendingConfirmation piece into the local table
C22_Witness ==
    /\ watcher.pc = "tick" /\ "h1" \in watcher.checked
    /\ "h1" \in DOMAIN piriTx /\ piriTx["h1"].TxStatus = "confirmed"
    /\ localTx["h1"] = piriTx["h1"]
    /\ Reconcilable("p1") /\ pieces["p1"].TransactionHash = "h1"

\* C23: a step that changes any field of a piece in Error, or removes it, is
\* not a step of AddPieceToProofSet, UploadPiece, MonitorTransactionStatus or
\* of the watcher's tick;
\* a piece in Error has been submitted to the ledger, and a piece id that
\* has been submitted is not submitted again by any step.
C23_ErrorIsTerminal ==
    [][\A id \in PieceIDs :
          /\ (/\ HasStatus(id, StatusError)
              /\ (id \notin DOMAIN pieces' \/ pieces'[id] # pieces[id]))
             => ~(\/ AddPieceToProofSet
                  \/ UploadPiece
                  \/ MonitorTransactionStatus
                  \/ WatcherTick)
          /\ HasStatus(id, StatusError) => addRootCalls[id] >= 1
          /\ addRootCalls[id] >= 1 => ~LedgerCalled(id)]_vars

\* an upload on a piece in Error has been refused and the piece is still in
\* Error
C23_Witness ==
    /\ Last.st = "done" /\ Last.op = "upload" /\ Last.seen = StatusError
    /\ Last.err = "exists"
    /\ HasStatus(Last.id, StatusError)
    /\ pieces[Last.id].ErrorMessage # ""

\* powers of two up to 2^MaxExponent are considered
MaxExponent == 11

PowersOfTwo == {2^k : k \in 0..MaxExponent}

\* the smallest power of two that is at least n
SmallestPowerOfTwoAtLeast(n) ==
    CHOOSE m \in PowersOfTwo :
        m >= n /\ \A q \in PowersOfTwo : q >= n => q >= m

\* the result of padding was computed
Padded == pad.pc \in {"once", "twice"}

\* C24: for an input x of n > 0 bytes, the padded sequence has the length of
\* the smallest power of two that is at least n (5 -> 8, 11 -> 16, 21 -> 32,
\* 1024 -> 1024), is x itself when n is a power of two, begins with the n
\* bytes of x and has only zero bytes after them.
C24_PadLengthAndContent ==
    (Padded /\ Len(pad.x) > 0)
    => LET n == Len(pad.x)
           m == Len(pad.once)
       IN  /\ m = SmallestPowerOfTwoAtLeast(n)
           /\ n \in PowersOfTwo => pad.once = pad.x
           /\ n = 5 => m = 8
           /\ n = 11 => m = 16
           /\ n = 21 => m = 32
           /\ n = 1024 => m = 1024
           /\ \A i \in 1..n : pad.once[i] = pad.x[i]
           /\ \A i \in (n + 1)..m : pad.once[i] = 0

\* an input of 11 bytes that are not all zero was padded to 16 bytes
C24_Witness ==
    /\ pad.pc = "once"
    /\ Len(pad.x) = 11 /\ pad.x[11] # 0
    /\ Len(pad.once) = 16

\* C25: padding the padded sequence gives the padded sequence, for every
\* input, the empty one included.
C25_PadIdempotent == pad.pc = "twice" => pad.twice = pad.once

\* the padded form of an input of 5 bytes, the last of them zero, was padded
\* again
C25_Witness ==
    /\ pad.pc = "twice"
    /\ Len(pad.x) = 5 /\ pad.x[1] # 0 /\ pad.x[5] = 0
    /\ Len(pad.twice) = 8

\* the error of a call refused for its input alone, before anything is
\* computed from it ("empty file" in TestPieceService_UploadPiece)
ValidationErrors == {"empty"}

\* C26: UploadPiece with zero-length content returns a validation error and
\* changes neither the piece map nor the blob store, and every stored piece
\* that was uploaded has a size that is a power of two.
C26_EmptyUploadRejectedAsInvalid ==
    [][/\ (/\ StepOf("upload")
           /\ StepCall.content.len = 0
           /\ \E putFails \in BOOLEAN : UploadPieceBody(Caller, StepCall, putFails))
          => /\ clients'[Caller].err \in ValidationErrors
             /\ pieces' = pieces
             /\ blobs' = blobs
       /\ \A id \in DOMAIN pieces :
             pieces[id].Status \in UploadedOrLater => IsPowerOfTwo(pieces[id].Size)]_vars

Max(a, b) == IF a >= b THEN a ELSE b

\* C27: UploadPiece of n > 0 bytes under an id without a record, the blob
\* store taking the bytes, succeeds and records as size the smallest power
\* of two that is at least max(n, 128); no uploaded piece has a size below
\* 128.
C27_SizeAtLeast128 ==
    [][/\ (/\ StepOf("upload")
           /\ ~Exists(StepCall.id)
           /\ StepCall.content.len > 0
           /\ UploadPieceBody(Caller, StepCall, FALSE))
          => /\ clients'[Caller].err = "none"
             /\ pieces'[StepCall.id].Size =
                   SmallestPowerOfTwoAtLeast(Max(StepCall.content.len, 128))
       /\ \A id \in DOMAIN pieces :
             pieces[id].Status \in UploadedOrLater => pieces[id].Size >= 128]_vars

\* client c has returned from an UploadPiece that succeeded, and the record
\* it created is still the record of its id
UploadedBy(c) ==
    /\ clients[c].st = "done" /\ clients[c].op = "upload"
    /\ clients[c].err = "none"
    /\ Exists(clients[c].id)
    /\ pieces[clients[c].id].Status \in UploadedOrLater

C29_PendingHasTransaction ==
    \A id \in DOMAIN pieces :
        pieces[id].Status = StatusPending
        => /\ pieces[id].TransactionHash # ""
           /\ pieces[id].ProofSetID \in ProofSetIDs
           /\ pieces[id].TransactionTimestamp # ZeroTime

\* C30: between operations, the error message of a piece is non-empty
\* exactly when its status is Error or TransactionFailed.
C30_ErrorMessageIffFailed ==
    \A id \in DOMAIN pieces :
        pieces[id].ErrorMessage # ""
        <=> pieces[id].Status \in {StatusError, StatusTxFailed}

\* one piece is TransactionFailed after reconciliation, the other in Error
\* after a rejected submission, both with their messages
C30_Witness ==
    /\ HasStatus("p1", StatusTxFailed)
    /\ pieces["p1"].ErrorMessage = "Transaction failed on blockchain"
    /\ HasStatus("p2", StatusError)
    /\ pieces["p2"].ErrorMessage = "failed to add root to proof set: rejected"

C32_PrepareOnlyAdds ==
    [][\A id \in DOMAIN pieces :
          (id \notin DOMAIN pieces' \/ pieces'[id] # pieces[id]) => ~PreparePiece]_vars

\* C33: AddPieceToProofSet on an Uploaded piece, the database otherwise
\* working and the ledger accepting, returns no error and leaves the piece
\* PendingConfirmation, whatever other pieces were uploaded or submitted
\* before, pieces with the same bytes included.
C33_EveryUploadedPieceSubmits ==
    [][\A reply \in AcceptingReplies :
          (/\ StepOf("add")
           /\ HasStatus(StepCall.id, StatusUploaded)
           /\ AddPieceToProofSetBody(Caller, StepCall, FALSE, reply))
          => /\ clients'[Caller].err = "none"
             /\ pieces'[StepCall.id].Status = StatusPending]_vars

\* client c returns in this step from an AddPieceToProofSet that failed in
\* createPiriDatabaseEntries
AddFailsAtRows(c) ==
    /\ clients[c].st = "called" /\ clients'[c].st = "done"
    /\ clients'[c].op = "add"
    /\ clients'[c].err \in {"db", "db_unique"}

\* the rows of a piece CID are those of all three steps or none
RowsAllOrNothing(rows) ==
    \A row \in rows : RowsUpTo(3, row.cid) \subseteq rows

\* C34: an AddPieceToProofSet that fails while it creates its database rows
\* leaves the piece Uploaded with every field as before, leaves no row of
\* the call in the database (the tables hold the three rows of a piece CID or
\* none of them) and makes no call of ProofSetAddRoot.
C34_FailedRowsLeaveNothing ==
    [][\A c \in Clients :
          AddFailsAtRows(c)
          => /\ HasStatus(clients[c].id, StatusUploaded)
             /\ pieces' = pieces
             /\ parked' = parked
             /\ RowsAllOrNothing(parked')
             /\ addRootCalls' = addRootCalls]_vars

\* the database refused a row of a submission of p1 that nothing blocked
\* otherwise: p1 is still Uploaded, no row exists, the ledger was not called
C34_Witness ==
    /\ clients["c1"].st = "done" /\ clients["c1"].op = "add"
    /\ clients["c1"].id = "p1" /\ clients["c1"].err = "db"
    /\ clients["c1"].seen = StatusUploaded /\ ~clients["c1"].rows
    /\ HasStatus("p1", StatusUploaded)
    /\ parked = {}
    /\ addRootCalls["p1"] = 0

\* PDPServer.Stop has returned, after PDPServer.Start
ServerStopped == Last.st = "done" /\ Last.op = "stop"

\* C35: once PDPServer.Stop has returned after PDPServer.Start started the
\* watcher, the goroutine of the watcher has returned and no tick begins or
\* goes on.
C35_ServerStopStopsWatcher ==
    [][ServerStopped => (watcher.pc = "exited" /\ watcher'.pc # "tick")]_vars

\* C36: no call of TransactionWatcher.Stop, be it the second one or one
\* made while another is waiting for the goroutine, panics.
C36_StopNeverPanics == watcher.stop # "panicked"

\* C37: a tick takes into its batch only local rows whose status is
\* pending; a local row changes only when it is pending, a tick has it
\* still to check and Piri's record of the hash has another status, and it
\* then equals Piri's record; a row that is no longer pending never changes
\* again.
C37_LocalRowsMoveForward ==
    [][/\ (watcher.pc = "select" /\ watcher'.pc = "tick")
          => \A h \in watcher'.batch : localTx[h].TxStatus = "pending"
       /\ \A h \in DOMAIN localTx :
             /\ h \in DOMAIN localTx'
             /\ localTx'[h] # localTx[h]
                => /\ localTx[h].TxStatus = "pending"
                   /\ watcher.pc = "tick" /\ h \in watcher.todo
                   /\ h \in DOMAIN piriTx
                   /\ piriTx[h].TxStatus # "pending"
                   /\ localTx'[h] = piriTx[h]
             /\ localTx[h].TxStatus # "pending" => localTx'[h] = localTx[h]]_vars

\* a tick runs with h2 alone in its batch while the row of h1, confirmed by
\* an earlier tick, equals Piri's record
C37_Witness ==
    /\ watcher.pc = "tick" /\ watcher.batch = {"h2"}
    /\ watcher.lastTick = "ok"
    /\ "h1" \in DOMAIN localTx /\ localTx["h1"].TxStatus = "confirmed"
    /\ localTx["h1"] = piriTx["h1"]

\* this step is a call of MonitorTransaction with hash h
MonitorCallOn(h) ==
    /\ clients' # clients \/ localTx' # localTx
    /\ clients'[Caller].op = "watch" /\ clients'[Caller].tx = h
    /\ watcher' = watcher

\* C38: a call of MonitorTransaction with a hash leaves a row for that hash
\* in the table, changes no row that exists already, that of the hash
\* included, and no step removes a row or takes a row that is not pending
\* back to pending.
C38_MonitorTransactionIdempotent ==
    [][/\ \A h \in WatchedHashes :
             MonitorCallOn(h)
             => /\ h \in DOMAIN localTx'
                /\ \A g \in DOMAIN localTx : localTx'[g] = localTx[g]
                /\ DOMAIN localTx' = DOMAIN localTx \cup {h}
       /\ \A h \in DOMAIN localTx :
             /\ h \in DOMAIN localTx'
             /\ localTx[h].TxStatus # "pending" => localTx'[h].TxStatus # "pending"]_vars

\* MonitorTransaction was called for a hash whose row a tick had confirmed,
\* and the row is still confirmed
C38_Witness ==
    /\ Last.st = "done" /\ Last.op = "watch"
    /\ Last.tx = "h1" /\ Last.seen = "confirmed"
    /\ localTx["h1"].TxStatus = "confirmed"
    /\ watcher.pc = "select"

\* C39: once every call of UploadFile has returned, the metadata file holds
\* exactly the entries of the map of uploads, one for each CID, and
\* loadMetadata rebuilds the map from it
C39_MetadataFileMatchesUploads ==
    UploadsReturned =>
        /\ uploadSvc.file = MetadataOf(uploadSvc.uploads)
        /\ Cardinality(uploadSvc.file) = Cardinality(DOMAIN uploadSvc.uploads)
        /\ loadMetadata(uploadSvc.file) = uploadSvc.uploads

\* two calls for different files have returned, each having copied the map
\* with both files in it, and the file holds the two entries
C39_Witness ==
    /\ \A c \in Clients : uploadSvc.calls[c].pc = "done"
    /\ \E c, d \in Clients :
         /\ uploadSvc.calls[c].cid # uploadSvc.calls[d].cid
         /\ uploadSvc.calls[c].snap = uploadSvc.calls[d].snap
    /\ DOMAIN uploadSvc.uploads = UploadCIDs
    /\ Cardinality(uploadSvc.file) = 2

=============================================================================
